---- MODULE Spec2Model ----
(***************************************************************************)
(* State-machine model of the two page managers of the repository:         *)
(* TodoManager (todo page) and BlogManager (blog page), with the browser   *)
(* objects they touch: localStorage, the clock behind Date.now(), the      *)
(* notification container with its timers, and the parts of the DOM the    *)
(* managers write (list markup, empty-state indicator, stats, form).       *)
(*                                                                         *)
(* A page session runs exactly one manager.  Strings the code processes    *)
(* (trim, split, toLowerCase, substring) are sequences of one-character    *)
(* strings; strings the code only passes around are TLA+ strings.          *)
(***************************************************************************)
EXTENDS Integers, Sequences, FiniteSets, TLC

VARIABLES
    page,           \* which page this session shows: "todo" or "blog"
    status,         \* "loading" before DOMContentLoaded, then "ready" or "crashed"
    now,            \* the clock read by Date.now() / new Date()
    storage,        \* localStorage: a function from the keys that are set to their text
    feed,           \* children of the #notification container, oldest first
    timers,         \* pending setTimeout callbacks of showNotification
    fault,          \* TRUE iff the last command ended by an uncaught exception
    ret,            \* what the last command returned: <<>> is undefined
    wfail,          \* TRUE iff localStorage.setItem threw during the last command
    asked,          \* the answer to the last command's confirm(): "none", "yes" or "no"
    failures,       \* how many writes have failed so far
    last,           \* the last command: its name and arguments
    emptyShown,     \* #empty-state is displayed
    searchInput,    \* value of the #searchInput box
    todos,          \* TodoManager.todos
    currentFilter,  \* TodoManager.currentFilter
    todoListDom,    \* the .todo-item elements inside #todo-list
    todoStats,      \* #total-tasks / #completed-tasks
    posts,          \* BlogManager.posts
    currentView,    \* BlogManager.currentView
    currentPostId,  \* BlogManager.currentPostId
    form,           \* #postTitle, #postContent, #postTags, #edit-post-id, #form-title
    postsListDom,   \* the post cards inside #posts-list
    blogStats,      \* #totalPosts / #totalWords
    shownView,      \* which of #formView / #listView / #postView is displayed
    postViewDom,    \* the card inside #postViewContainer
    ms,             \* milliseconds on the clock of setTimeout
    called,         \* the calls made of a function returned by debounce
    timeout,        \* debounce's `timeout`: 0 is undefined, else a timer id
    pending,        \* the timers set by the debounced function and not yet run or cleared
    invoked         \* the invocations of the function given to debounce

\* the state of one debounced function
dvars == <<ms, called, timeout, pending, invoked>>

vars == <<dvars, page, status, now, storage, feed, timers, fault, ret, wfail, asked,
          failures, last, emptyShown,
          searchInput, todos, currentFilter, todoListDom, todoStats, posts,
          currentView, currentPostId, form, postsListDom, blogStats, shownView,
          postViewDom>>

----------------------------------------------------------------------------
(* Bounds of the model *)

MaxTodos == 2      \* records a create command may start from
MaxPosts == 2
MaxTicks == 1      \* clock readings after the first
MaxPending == 1    \* pending toast timers a notifying command may start from
MaxWriteFailures == 1  \* storage writes that fail in one session
MaxCalls == 3   \* calls made of one debounced function
MaxClock == 4   \* the last millisecond at which a debounced function is called

----------------------------------------------------------------------------
(* Strings *)

IsSpace(c) == c = " "

RECURSIVE TrimStart(_)
TrimStart(s) ==
    IF s = <<>> THEN <<>>
    ELSE IF IsSpace(Head(s)) THEN TrimStart(Tail(s)) ELSE s

RECURSIVE TrimEnd(_)
TrimEnd(s) ==
    IF s = <<>> THEN <<>>
    ELSE IF IsSpace(s[Len(s)]) THEN TrimEnd(SubSeq(s, 1, Len(s) - 1)) ELSE s

\* String.prototype.trim
Trim(s) == TrimEnd(TrimStart(s))

\* a string used as a condition: the empty string is falsy
Truthy(s) == s # <<>>

LowerChar(c) ==
    CASE c = "A" -> "a"
      [] c = "B" -> "b"
      [] c = "H" -> "h"
      [] c = "I" -> "i"
      [] c = "N" -> "n"
      [] c = "T" -> "t"
      [] c = "U" -> "u"
      [] c = "X" -> "x"
      [] OTHER -> c

\* String.prototype.toLowerCase
ToLowerCase(s) == [i \in 1..Len(s) |-> LowerChar(s[i])]

\* String.prototype.includes
Includes(hay, needle) ==
    \E i \in 0..(Len(hay) - Len(needle)) :
        SubSeq(hay, i + 1, i + Len(needle)) = needle

DigitChar(d) ==
    CASE d = 0 -> "0" [] d = 1 -> "1" [] d = 2 -> "2" [] d = 3 -> "3"
      [] d = 4 -> "4" [] d = 5 -> "5" [] d = 6 -> "6" [] d = 7 -> "7"
      [] d = 8 -> "8" [] d = 9 -> "9"

\* Number.prototype.toString: decimal digits, no padding
RECURSIVE NumberToString(_)
NumberToString(n) ==
    IF n < 10 THEN <<DigitChar(n)>>
    ELSE Append(NumberToString(n \div 10), DigitChar(n % 10))

\* Date.prototype.toISOString: a fixed-width rendering of the instant
IsoWidth == 4
ToISOString(n) ==
    <<"T">> \o [i \in 1..IsoWidth |->
                  DigitChar((n \div (10 ^ (IsoWidth - i))) % 10)] \o <<"Z">>

----------------------------------------------------------------------------
(* JSON text: a sequence of tokens *)

LBracket == [tok |-> "[", obj |-> <<>>]
RBracket == [tok |-> "]", obj |-> <<>>]
ObjTok(r) == [tok |-> "{}", obj |-> <<r>>]

\* JSON.stringify of an array of plain records
JSONstringify(arr) ==
    <<LBracket>> \o [i \in 1..Len(arr) |-> ObjTok(arr[i])] \o <<RBracket>>

\* JSON.parse accepts exactly "[" object* "]"; anything else is a SyntaxError
JSONwellFormed(text) ==
    /\ Len(text) >= 2
    /\ text[1] = LBracket
    /\ text[Len(text)] = RBracket
    /\ \A i \in 2..(Len(text) - 1) : text[i].tok = "{}"

JSONparse(text) == [i \in 1..(Len(text) - 2) |-> text[i + 1].obj[1]]

\* localStorage.getItem returns null for a key that is not set
HasItem(st, key) == key \in DOMAIN st

\* localStorage.setItem
SetItem(st, key, text) ==
    [k \in (DOMAIN st) \cup {key} |-> IF k = key THEN text ELSE st[k]]

----------------------------------------------------------------------------
(* The state the handlers work on, as one record *)

Cur ==
    [storage |-> storage, feed |-> feed, timers |-> timers, fault |-> fault,
     ret |-> ret, wfail |-> wfail, asked |-> asked, emptyShown |-> emptyShown, searchInput |-> searchInput,
     todos |-> todos, currentFilter |-> currentFilter,
     todoListDom |-> todoListDom, todoStats |-> todoStats,
     posts |-> posts, currentView |-> currentView,
     currentPostId |-> currentPostId, form |-> form,
     postsListDom |-> postsListDom, blogStats |-> blogStats,
     shownView |-> shownView, postViewDom |-> postViewDom]

Becomes(s) ==
    /\ storage' = s.storage
    /\ feed' = s.feed
    /\ timers' = s.timers
    /\ fault' = s.fault
    /\ ret' = s.ret
    /\ wfail' = s.wfail
    /\ asked' = s.asked
    /\ failures' = IF s.wfail THEN failures + 1 ELSE failures
    /\ emptyShown' = s.emptyShown
    /\ searchInput' = s.searchInput
    /\ todos' = s.todos
    /\ currentFilter' = s.currentFilter
    /\ todoListDom' = s.todoListDom
    /\ todoStats' = s.todoStats
    /\ posts' = s.posts
    /\ currentView' = s.currentView
    /\ currentPostId' = s.currentPostId
    /\ form' = s.form
    /\ postsListDom' = s.postsListDom
    /\ blogStats' = s.blogStats
    /\ shownView' = s.shownView
    /\ postViewDom' = s.postViewDom
    /\ UNCHANGED dvars

\* a command starts with no pending exception and returns undefined unless
\* its code has a return statement with a value
Enter(s) == [s EXCEPT !.fault = FALSE, !.ret = <<>>, !.wfail = FALSE, !.asked = "none"]

\* window.confirm(): the user's answer
Confirm(s, yes) == [s EXCEPT !.asked = IF yes THEN "yes" ELSE "no"]

\* an exception leaves the handler: nothing after the throwing statement runs
Throw(s) == [s EXCEPT !.fault = TRUE]

\* the record kept in `last`: hit tells whether the id named an existing record
\* when the command started
NoOpt == [priority |-> "", dueDate |-> ""]
Cmd(op, id, hit, text, text2, tags, opt) ==
    [op |-> op, id |-> id, hit |-> hit, text |-> text, text2 |-> text2,
     tags |-> tags, opt |-> opt]
Env(op) == Cmd(op, <<>>, FALSE, <<>>, <<>>, <<>>, NoOpt)

\* Array.prototype.findIndex on the id field; 0 stands for JavaScript's -1
FindIndex(arr, id) ==
    IF \E i \in 1..Len(arr) : arr[i].id = id
    THEN CHOOSE i \in 1..Len(arr) :
            /\ arr[i].id = id
            /\ \A j \in 1..(i - 1) : arr[j].id # id
    ELSE 0

\* Array.prototype.splice(index, 1)
Splice1(arr, idx) == SubSeq(arr, 1, idx - 1) \o SubSeq(arr, idx + 1, Len(arr))

----------------------------------------------------------------------------
(* Notifier (the same code in both managers) *)

NOTIFY_MS == 3000

ToastIds(s) == {s.feed[i].id : i \in 1..Len(s.feed)} \cup {tm.toast : tm \in s.timers}

\* document.createElement('div'): an element distinct from every live one
NewToastId(s) == CHOOSE n \in 0..Cardinality(ToastIds(s)) : n \notin ToastIds(s)

Msg(fmt, n) == [fmt |-> fmt, n |-> n]

showNotification(s, message, type) ==
    LET toast == [id |-> NewToastId(s), type |-> type, message |-> message]
    IN  [s EXCEPT !.feed = Append(s.feed, toast),
                  !.timers = s.timers \cup {[toast |-> toast.id, delay |-> NOTIFY_MS]}]

\* a timer callback that removes the oldest toast instead of its own
toastTimeout_RemoveOldest(s, tm) ==
    [s EXCEPT !.feed = IF s.feed = <<>> THEN <<>> ELSE Tail(s.feed),
              !.timers = s.timers \ {tm}]

\* the setTimeout callback of one toast: if (toast.parentNode) toast.remove()
toastTimeout(s, tm) ==
    [s EXCEPT !.feed = SelectSeq(s.feed, LAMBDA x : x.id # tm.toast),
              !.timers = s.timers \ {tm}]

\* the toast's btn-close (data-bs-dismiss="alert") removes the toast element
dismissToast(s, id) ==
    [s EXCEPT !.feed = SelectSeq(s.feed, LAMBDA x : x.id # id)]

----------------------------------------------------------------------------
(* TodoManager *)

TODOS_KEY == "todos"

\* saveTodos: the write may throw (quota exceeded, storage disabled)
saveTodos(s, writeOk) ==
    IF writeOk
    THEN [s EXCEPT !.storage = SetItem(s.storage, TODOS_KEY, JSONstringify(s.todos))]
    ELSE showNotification([s EXCEPT !.wfail = TRUE],
                          Msg("Error saving todos!", <<>>), "danger")

\* loadTodos: the value of the expression, never an exception
loadTodos(s) ==
    IF ~HasItem(s.storage, TODOS_KEY) THEN <<>>
    ELSE LET saved == s.storage[TODOS_KEY]
         IN  IF ~Truthy(saved) THEN <<>>
             ELSE IF JSONwellFormed(saved) THEN JSONparse(saved)
             ELSE <<>>

\* getFilteredTodos with the two filtering cases exchanged
getFilteredTodos_Swapped(s) ==
    CASE s.currentFilter = "pending" ->
            SelectSeq(s.todos, LAMBDA todo : todo.completed)
      [] s.currentFilter = "completed" ->
            SelectSeq(s.todos, LAMBDA todo : ~todo.completed)
      [] OTHER -> s.todos

getFilteredTodos(s) ==
    CASE s.currentFilter = "pending" ->
            SelectSeq(s.todos, LAMBDA todo : ~todo.completed)
      [] s.currentFilter = "completed" ->
            SelectSeq(s.todos, LAMBDA todo : todo.completed)
      [] OTHER -> s.todos

\* the .todo-item element of one todo; a new element has no inline display
createTodoHTML(todo) ==
    [id |-> todo.id, text |-> todo.text, completed |-> todo.completed,
     display |-> ""]

render(s) ==
    LET filteredTodos == getFilteredTodos(s)
    IN  IF Len(filteredTodos) = 0
        THEN [s EXCEPT !.todoListDom = <<>>, !.emptyShown = TRUE]
        ELSE [s EXCEPT !.todoListDom =
                           [i \in 1..Len(filteredTodos) |->
                               createTodoHTML(filteredTodos[i])],
                       !.emptyShown = FALSE]

updateStats(s) ==
    [s EXCEPT !.todoStats =
        [total |-> Len(s.todos),
         completed |-> Len(SelectSeq(s.todos, LAMBDA t : t.completed))]]

\* addTodo with the priority argument dropped in favour of the default
addTodo_DefaultPriority(s, text, priority, dueDate, t, writeOk) ==
    LET todo == [id |-> NumberToString(t),
                 text |-> text,
                 completed |-> FALSE,
                 priority |-> "medium",
                 dueDate |-> dueDate,
                 createdAt |-> ToISOString(t)]
        s1 == [s EXCEPT !.todos = <<todo>> \o s.todos]
        s2 == saveTodos(s1, writeOk)
        s3 == render(s2)
        s4 == updateStats(s3)
    IN  showNotification(s4, Msg("Todo added successfully!", <<>>), "success")

\* addTodo with push in place of unshift
addTodo_Push(s, text, priority, dueDate, t, writeOk) ==
    LET todo == [id |-> NumberToString(t),
                 text |-> text,
                 completed |-> FALSE,
                 priority |-> priority,
                 dueDate |-> dueDate,
                 createdAt |-> ToISOString(t)]
        s1 == [s EXCEPT !.todos = Append(s.todos, todo)]
        s2 == saveTodos(s1, writeOk)
        s3 == render(s2)
        s4 == updateStats(s3)
    IN  showNotification(s4, Msg("Todo added successfully!", <<>>), "success")

addTodo(s, text, priority, dueDate, t, writeOk) ==
    LET todo == [id |-> NumberToString(t),
                 text |-> text,
                 completed |-> FALSE,
                 priority |-> priority,
                 dueDate |-> dueDate,
                 createdAt |-> ToISOString(t)]
        s1 == [s EXCEPT !.todos = <<todo>> \o s.todos]
        s2 == saveTodos(s1, writeOk)
        s3 == render(s2)
        s4 == updateStats(s3)
    IN  showNotification(s4, Msg("Todo added successfully!", <<>>), "success")

\* the submit listener of #todo-form
todoFormSubmit(s, value, priority, dueDate, t, writeOk) ==
    LET text == Trim(value)
    IN  IF Truthy(text) THEN addTodo(s, text, priority, dueDate, t, writeOk)
        ELSE s

\* toggleTodo that marks the record completed instead of flipping the flag
toggleTodo_SetCompleted(s, id, writeOk) ==
    LET idx == FindIndex(s.todos, id)
    IN  IF idx > 0
        THEN LET s1 == [s EXCEPT !.todos[idx].completed = TRUE]
                 s2 == saveTodos(s1, writeOk)
                 s3 == render(s2)
                 s4 == updateStats(s3)
             IN  showNotification(s4, Msg("Todo completed!", <<>>), "info")
        ELSE s

\* toggleTodo that saves before it flips the flag
toggleTodo_SaveFirst(s, id, writeOk) ==
    LET idx == FindIndex(s.todos, id)
    IN  IF idx > 0
        THEN LET s1 == saveTodos(s, writeOk)
                 s2 == [s1 EXCEPT !.todos[idx].completed = ~s.todos[idx].completed]
                 s3 == render(s2)
                 s4 == updateStats(s3)
                 message == IF s2.todos[idx].completed
                            THEN "Todo completed!"
                            ELSE "Todo marked as pending"
             IN  showNotification(s4, Msg(message, <<>>), "info")
        ELSE s

toggleTodo(s, id, writeOk) ==
    LET idx == FindIndex(s.todos, id)
    IN  IF idx > 0
        THEN LET s1 == [s EXCEPT !.todos[idx].completed = ~s.todos[idx].completed]
                 s2 == saveTodos(s1, writeOk)
                 s3 == render(s2)
                 s4 == updateStats(s3)
                 message == IF s1.todos[idx].completed
                            THEN "Todo completed!"
                            ELSE "Todo marked as pending"
             IN  showNotification(s4, Msg(message, <<>>), "info")
        ELSE s

deleteTodo(s, id, writeOk) ==
    LET todoIndex == FindIndex(s.todos, id)
    IN  IF todoIndex > 0
        THEN LET s1 == [s EXCEPT !.todos = Splice1(s.todos, todoIndex)]
                 s2 == saveTodos(s1, writeOk)
                 s3 == render(s2)
                 s4 == updateStats(s3)
             IN  showNotification(s4, Msg("Todo deleted!", <<>>), "warning")
        ELSE s

\* editTodo without the call of saveTodos
editTodo_NoSave(s, id, newText, writeOk) ==
    LET idx == FindIndex(s.todos, id)
    IN  IF idx > 0 /\ Truthy(Trim(newText))
        THEN LET s1 == [s EXCEPT !.todos[idx].text = Trim(newText)]
                 s3 == render(s1)
             IN  showNotification(s3, Msg("Todo updated!", <<>>), "success")
        ELSE s

editTodo(s, id, newText, writeOk) ==
    LET idx == FindIndex(s.todos, id)
    IN  IF idx > 0 /\ Truthy(Trim(newText))
        THEN LET s1 == [s EXCEPT !.todos[idx].text = Trim(newText)]
                 s2 == saveTodos(s1, writeOk)
                 s3 == render(s2)
             IN  showNotification(s3, Msg("Todo updated!", <<>>), "success")
        ELSE s

setFilter(s, filter) == render([s EXCEPT !.currentFilter = filter])

\* searchTodos walks the rendered items and sets their inline display
searchTodos(s, query) ==
    LET searchQuery == ToLowerCase(query)
    IN  [s EXCEPT !.todoListDom =
            [i \in 1..Len(s.todoListDom) |->
                [s.todoListDom[i] EXCEPT !.display =
                    IF Includes(ToLowerCase(s.todoListDom[i].text), searchQuery)
                    THEN "block" ELSE "none"]]]

\* clearCompleted that empties the list instead of keeping the pending todos
clearCompleted_DropAll(s, yes, writeOk) ==
    LET completedCount == Len(SelectSeq(s.todos, LAMBDA t : t.completed))
    IN  IF completedCount = 0
        THEN showNotification(s, Msg("No completed todos to clear!", <<>>), "info")
        ELSE IF yes
        THEN LET s0 == Confirm(s, yes)
                 s1 == [s0 EXCEPT !.todos = <<>>]
                 s2 == saveTodos(s1, writeOk)
                 s3 == render(s2)
                 s4 == updateStats(s3)
             IN  showNotification(s4,
                    Msg("%n completed todos cleared!", NumberToString(completedCount)),
                    "success")
        ELSE Confirm(s, yes)

clearCompleted(s, yes, writeOk) ==
    LET completedCount == Len(SelectSeq(s.todos, LAMBDA t : t.completed))
    IN  IF completedCount = 0
        THEN showNotification(s, Msg("No completed todos to clear!", <<>>), "info")
        ELSE IF yes
        THEN LET s0 == Confirm(s, yes)
                 s1 == [s0 EXCEPT !.todos = SelectSeq(s.todos, LAMBDA todo : ~todo.completed)]
                 s2 == saveTodos(s1, writeOk)
                 s3 == render(s2)
                 s4 == updateStats(s3)
             IN  showNotification(s4,
                    Msg("%n completed todos cleared!", NumberToString(completedCount)),
                    "success")
        ELSE Confirm(s, yes)

\* new TodoManager(): constructor and init
newTodoManager(s) ==
    LET s1 == [s EXCEPT !.todos = loadTodos(s), !.currentFilter = "all"]
    IN  updateStats(render(s1))

----------------------------------------------------------------------------
(* BlogManager *)

POSTS_KEY == "blog-posts"
EXCERPT_MAX == 150

\* String.prototype.split(',')
RECURSIVE Split(_, _)
Split(str, sep) ==
    IF \E i \in 1..Len(str) : str[i] = sep
    THEN LET i == CHOOSE k \in 1..Len(str) :
                     /\ str[k] = sep
                     /\ \A j \in 1..(k - 1) : str[j] # sep
         IN  <<SubSeq(str, 1, i - 1)>> \o Split(SubSeq(str, i + 1, Len(str)), sep)
    ELSE <<str>>

\* Array.prototype.join(', ')
RECURSIVE Join(_)
Join(parts) ==
    IF parts = <<>> THEN <<>>
    ELSE IF Len(parts) = 1 THEN parts[1]
    ELSE parts[1] \o <<",", " ">> \o Join(Tail(parts))

\* tags ? tags.split(',').map(t => t.trim()).filter(Boolean) : []
parseTags(tags) ==
    IF Truthy(tags)
    THEN LET pieces == Split(tags, ",")
             trimmed == [i \in 1..Len(pieces) |-> Trim(pieces[i])]
         IN  SelectSeq(trimmed, Truthy)
    ELSE <<>>

\* generateExcerpt that truncates from the limit on instead of above it
generateExcerpt_OffByOne(content) ==
    IF ~Truthy(content) THEN <<>>
    ELSE IF Len(content) >= EXCERPT_MAX
         THEN SubSeq(content, 1, EXCERPT_MAX) \o <<".", ".", ".">>
         ELSE content

generateExcerpt(content) ==
    IF ~Truthy(content) THEN <<>>
    ELSE IF Len(content) > EXCERPT_MAX
         THEN SubSeq(content, 1, EXCERPT_MAX) \o <<".", ".", ".">>
         ELSE content

\* text ? text.trim().split(/\s+/).length : 0
countWords(text) ==
    IF ~Truthy(text) THEN 0
    ELSE LET tr == Trim(text)
         IN  IF tr = <<>> THEN 1
             ELSE Cardinality({i \in 1..Len(tr) :
                      /\ ~IsSpace(tr[i])
                      /\ (i = 1 \/ IsSpace(tr[i - 1]))})

RECURSIVE SumWords(_)
SumWords(arr) ==
    IF arr = <<>> THEN 0 ELSE countWords(Head(arr).content) + SumWords(Tail(arr))

\* savePosts has no handler around the write: a failing write throws
savePosts(s, writeOk) ==
    IF writeOk
    THEN [s EXCEPT !.storage = SetItem(s.storage, POSTS_KEY, JSONstringify(s.posts))]
    ELSE Throw([s EXCEPT !.wfail = TRUE])

\* loadPosts has no handler around the parse: malformed text throws
loadPosts(s) ==
    IF ~HasItem(s.storage, POSTS_KEY) THEN [s EXCEPT !.posts = <<>>]
    ELSE LET data == s.storage[POSTS_KEY]
         IN  IF ~Truthy(data) THEN [s EXCEPT !.posts = <<>>]
             ELSE IF JSONwellFormed(data) THEN [s EXCEPT !.posts = JSONparse(data)]
             ELSE Throw(s)

\* postMatches that forgets the tags
postMatches_NoTags(post, searchQuery) ==
    LET q == ToLowerCase(searchQuery)
    IN  \/ Includes(ToLowerCase(post.title), q)
        \/ Includes(ToLowerCase(post.content), q)

postMatches(post, searchQuery) ==
    LET q == ToLowerCase(searchQuery)
    IN  \/ Includes(ToLowerCase(post.title), q)
        \/ Includes(ToLowerCase(post.content), q)
        \/ \E i \in 1..Len(post.tags) : Includes(ToLowerCase(post.tags[i]), q)

createPostCardHTML(post) ==
    [id |-> post.id, title |-> post.title, excerpt |-> post.excerpt]

renderPostsList(s, searchQuery) ==
    LET filtered == IF Truthy(searchQuery)
                    THEN SelectSeq(s.posts, LAMBDA post : postMatches(post, searchQuery))
                    ELSE s.posts
    IN  IF Len(filtered) = 0
        THEN [s EXCEPT !.postsListDom = <<>>, !.emptyShown = TRUE]
        ELSE [s EXCEPT !.emptyShown = FALSE,
                       !.postsListDom =
                           [i \in 1..Len(filtered) |-> createPostCardHTML(filtered[i])]]

updateBlogStats(s) ==
    [s EXCEPT !.blogStats =
        [totalPosts |-> Len(s.posts), totalWords |-> SumWords(s.posts)]]

showPostsList(s) == [s EXCEPT !.currentView = "list", !.shownView = "listView"]

\* showCreateForm without the reset of #blogForm
showCreateForm_NoReset(s) ==
    [s EXCEPT !.currentView = "create",
              !.shownView = "formView",
              !.form.editId = <<>>,
              !.form.heading = "Create New Post"]

showCreateForm(s) ==
    [s EXCEPT !.currentView = "create",
              !.shownView = "formView",
              !.form = [title |-> <<>>, content |-> <<>>, tags |-> <<>>,
                        editId |-> <<>>, heading |-> "Create New Post"]]

\* showEditForm that records the view and the id before it looks the post up
showEditForm_AssignFirst(s, id) ==
    LET idx == FindIndex(s.posts, id)
        s1 == [s EXCEPT !.currentView = "edit", !.currentPostId = id]
    IN  IF idx = 0 THEN s1
        ELSE LET post == s.posts[idx]
             IN  [s1 EXCEPT !.shownView = "formView",
                            !.form = [title |-> post.title,
                                      content |-> post.content,
                                      tags |-> Join(post.tags),
                                      editId |-> id,
                                      heading |-> "Edit Post"]]

showEditForm(s, id) ==
    LET idx == FindIndex(s.posts, id)
    IN  IF idx = 0 THEN s
        ELSE LET post == s.posts[idx]
             IN  [s EXCEPT !.currentView = "edit",
                           !.currentPostId = id,
                           !.shownView = "formView",
                           !.form = [title |-> post.title,
                                     content |-> post.content,
                                     tags |-> Join(post.tags),
                                     editId |-> id,
                                     heading |-> "Edit Post"]]

showPostView(s, id) ==
    LET idx == FindIndex(s.posts, id)
    IN  IF idx = 0 THEN s
        ELSE LET post == s.posts[idx]
             IN  [s EXCEPT !.currentView = "view",
                           !.shownView = "postView",
                           !.postViewDom = <<[id |-> post.id, title |-> post.title,
                                              content |-> post.content]>>]

createPost(s, title, content, tags, excerpt, t, writeOk) ==
    LET newPost == [id |-> NumberToString(t),
                    title |-> title,
                    content |-> content,
                    tags |-> tags,
                    excerpt |-> excerpt,
                    createdAt |-> ToISOString(t)]
        s1 == [s EXCEPT !.posts = <<newPost>> \o s.posts]
        s2 == savePosts(s1, writeOk)
    IN  IF s2.fault THEN s2
        ELSE LET s3 == renderPostsList(s2, <<>>)
                 s4 == updateBlogStats(s3)
                 s5 == showPostsList(s4)
             IN  showNotification(s5, Msg("Post created!", <<>>), "success")

\* updatePost that builds the record anew instead of spreading the old one:
\* createdAt is lost
updatePost_NoSpread(s, id, title, content, tags, excerpt, writeOk) ==
    LET idx == FindIndex(s.posts, id)
    IN  IF idx > 0
        THEN LET s1 == [s EXCEPT !.posts[idx] =
                            [id |-> id, title |-> title, content |-> content,
                             tags |-> tags, excerpt |-> excerpt,
                             createdAt |-> <<>>]]
                 s2 == savePosts(s1, writeOk)
             IN  IF s2.fault THEN s2
                 ELSE LET s3 == renderPostsList(s2, <<>>)
                          s4 == updateBlogStats(s3)
                          s5 == showPostsList(s4)
                      IN  showNotification(s5, Msg("Post updated!", <<>>), "success")
        ELSE s

updatePost(s, id, title, content, tags, excerpt, writeOk) ==
    LET idx == FindIndex(s.posts, id)
    IN  IF idx > 0
        THEN LET s1 == [s EXCEPT !.posts[idx] =
                            [s.posts[idx] EXCEPT !.title = title,
                                                 !.content = content,
                                                 !.tags = tags,
                                                 !.excerpt = excerpt]]
                 s2 == savePosts(s1, writeOk)
             IN  IF s2.fault THEN s2
                 ELSE LET s3 == renderPostsList(s2, <<>>)
                          s4 == updateBlogStats(s3)
                          s5 == showPostsList(s4)
                      IN  showNotification(s5, Msg("Post updated!", <<>>), "success")
        ELSE s

\* deletePost without the call of savePosts
deletePost_NoSave(s, id, yes, writeOk) ==
    LET idx == FindIndex(s.posts, id)
    IN  IF idx > 0 /\ yes
        THEN LET s0 == Confirm(s, yes)
                 s1 == [s0 EXCEPT !.posts = Splice1(s.posts, idx)]
                 s3 == renderPostsList(s1, <<>>)
                 s4 == updateBlogStats(s3)
                 s5 == showPostsList(s4)
             IN  showNotification(s5, Msg("Post deleted!", <<>>), "warning")
        ELSE IF idx > 0 THEN Confirm(s, yes)
        ELSE s

\* deletePost that removes the post before it asks
deletePost_SpliceFirst(s, id, yes, writeOk) ==
    LET idx == FindIndex(s.posts, id)
    IN  IF idx > 0 /\ yes
        THEN LET s0 == Confirm(s, yes)
                 s1 == [s0 EXCEPT !.posts = Splice1(s.posts, idx)]
                 s2 == savePosts(s1, writeOk)
             IN  IF s2.fault THEN s2
                 ELSE LET s3 == renderPostsList(s2, <<>>)
                          s4 == updateBlogStats(s3)
                          s5 == showPostsList(s4)
                      IN  showNotification(s5, Msg("Post deleted!", <<>>), "warning")
        ELSE IF idx > 0
        THEN [Confirm(s, yes) EXCEPT !.posts = Splice1(s.posts, idx)]
        ELSE s

deletePost(s, id, yes, writeOk) ==
    LET idx == FindIndex(s.posts, id)
    IN  IF idx > 0 /\ yes
        THEN LET s0 == Confirm(s, yes)
                 s1 == [s0 EXCEPT !.posts = Splice1(s.posts, idx)]
                 s2 == savePosts(s1, writeOk)
             IN  IF s2.fault THEN s2
                 ELSE LET s3 == renderPostsList(s2, <<>>)
                          s4 == updateBlogStats(s3)
                          s5 == showPostsList(s4)
                      IN  showNotification(s5, Msg("Post deleted!", <<>>), "warning")
        ELSE IF idx > 0 THEN Confirm(s, yes)
        ELSE s

\* handleFormSubmission that decides by currentPostId alone
handleFormSubmission_IgnoresView(s, t, writeOk) ==
    LET title == Trim(s.form.title)
        content == Trim(s.form.content)
        tagsArr == parseTags(Trim(s.form.tags))
        excerpt == generateExcerpt(content)
    IN  IF ~Truthy(title) \/ ~Truthy(content)
        THEN showNotification(s, Msg("Title and content are required!", <<>>), "warning")
        ELSE IF Truthy(s.currentPostId)
             THEN updatePost(s, s.currentPostId, title, content, tagsArr, excerpt, writeOk)
             ELSE createPost(s, title, content, tagsArr, excerpt, t, writeOk)

handleFormSubmission(s, t, writeOk) ==
    LET title == Trim(s.form.title)
        content == Trim(s.form.content)
        tagsArr == parseTags(Trim(s.form.tags))
        excerpt == generateExcerpt(content)
    IN  IF ~Truthy(title) \/ ~Truthy(content)
        THEN showNotification(s, Msg("Title and content are required!", <<>>), "warning")
        ELSE IF s.currentView = "edit" /\ Truthy(s.currentPostId)
             THEN updatePost(s, s.currentPostId, title, content, tagsArr, excerpt, writeOk)
             ELSE createPost(s, title, content, tagsArr, excerpt, t, writeOk)

\* new BlogManager(): constructor and init
newBlogManager(s) ==
    LET s0 == [s EXCEPT !.posts = <<>>, !.currentView = "list", !.currentPostId = <<>>]
        s1 == loadPosts(s0)
    IN  IF s1.fault THEN s1
        ELSE showPostsList(updateBlogStats(renderPostsList(s1, <<>>)))

----------------------------------------------------------------------------
(* Inputs *)

StartClock == 2

\* a record written by an earlier session
SeedTodo ==
    [id |-> NumberToString(1), text |-> <<"a">>, completed |-> TRUE,
     priority |-> "low", dueDate |-> "", createdAt |-> ToISOString(1)]
SeedPost ==
    [id |-> NumberToString(1), title |-> <<"H", "i">>, content |-> <<"a", " ", "B">>,
     tags |-> << <<"t">> >>, excerpt |-> <<"a", " ", "B">>, createdAt |-> ToISOString(1)]

\* what the page's key can hold when the page is opened: nothing, the empty
\* string, a truncated text, or the text an earlier session wrote
NoStorage == [k \in {} |-> <<>>]
StoredTexts(seed) ==
    {<<>>, <<LBracket, ObjTok(seed)>>, JSONstringify(<<seed>>)}
InitialStorages(key, seed) ==
    {NoStorage} \cup {SetItem(NoStorage, key, text) : text \in StoredTexts(seed)}

\* arguments of a direct addTodo call
TodoInputs ==
    {[text |-> <<" ">>, priority |-> "low", dueDate |-> ""],
     [text |-> <<"a">>, priority |-> "high", dueDate |-> "2024-01-01"]}
\* what the user can enter into #todo-form
TodoFormInputs ==
    {[text |-> <<" ">>, priority |-> "medium", dueDate |-> ""],
     [text |-> <<" ", "B">>, priority |-> "medium", dueDate |-> ""]}
\* the new text of an edit
EditTexts == {<<" ">>, <<" ", "a">>}
Opt(in) == [priority |-> in.priority, dueDate |-> in.dueDate]
Filters == {"all", "pending", "completed"}
Queries == {<<>>, <<"b">>}
\* arguments of a direct renderPostsList call
SearchQueries == {<<>>, <<" ">>, <<"b">>, <<"T">>, <<"u">>, <<"z">>}

\* an identifier no record ever has: the clock never reads 0
MissingId == NumberToString(0)
IdArgs(arr) == {arr[i].id : i \in 1..Len(arr)} \cup {MissingId}

LongContent == [i \in 1..(EXCERPT_MAX + 1) |-> "x"]

\* what the user can type into #postTitle, #postContent and #postTags
FormFills ==
    {[title |-> <<" ">>, content |-> <<"a">>, tags |-> <<>>],
     [title |-> <<" ", "N">>, content |-> <<"B", " ">>,
      tags |-> <<"t", ",", " ", "U", ",">>]}

\* contents around the excerpt limit, one of them with a space that trim removes
Chars(n) == [i \in 1..n |-> "x"]
LongFills ==
    {[title |-> <<"N">>, content |-> Chars(n), tags |-> <<>>] :
        n \in {1, EXCERPT_MAX - 1, EXCERPT_MAX, EXCERPT_MAX + 1}}
    \cup {[title |-> <<"N">>, content |-> Chars(EXCERPT_MAX) \o <<" ">>, tags |-> <<>>]}

\* arguments of a direct createPost / updatePost call
PostArgs ==
    {[title |-> <<" ">>, content |-> <<>>, tags |-> <<>>, excerpt |-> <<>>],
     [title |-> <<"N">>, content |-> <<"a", " ", "B">>, tags |-> << <<"U">> >>,
      excerpt |-> <<"a">>]}

----------------------------------------------------------------------------
(* The page before its script has run *)

BlankForm == [title |-> <<>>, content |-> <<>>, tags |-> <<>>,
              editId |-> <<>>, heading |-> "Create New Post"]

Unloaded(st) ==
    [storage |-> st, feed |-> <<>>, timers |-> {}, fault |-> FALSE,
     ret |-> <<>>, wfail |-> FALSE, asked |-> "none", emptyShown |-> FALSE, searchInput |-> <<>>,
     todos |-> <<>>, currentFilter |-> "all",
     todoListDom |-> <<>>, todoStats |-> [total |-> 0, completed |-> 0],
     posts |-> <<>>, currentView |-> "list",
     currentPostId |-> <<>>, form |-> BlankForm,
     postsListDom |-> <<>>, blogStats |-> [totalPosts |-> 0, totalWords |-> 0],
     shownView |-> "listView", postViewDom |-> <<>>]

\* utils.js: function debounce(func, wait)

\* the `wait` the debounced function was made with, in milliseconds
Wait == 2

\* the arguments a debounced function is called with
CallArgs == {"a", "b"}

DCur ==
    [ms |-> ms, called |-> called, timeout |-> timeout, pending |-> pending,
     invoked |-> invoked]

DBecomes(d) ==
    /\ called' = d.called
    /\ timeout' = d.timeout
    /\ pending' = d.pending
    /\ invoked' = d.invoked

\* clearTimeout(id): nothing happens unless a pending timer has this id
clearTimeout(d, id) == [d EXCEPT !.pending = {x \in @ : x.id # id}]

\* executedFunction that sets its timer without clearing the previous one
executedFunction_NoClear(d, args) ==
    LET d0 == [d EXCEPT !.called = Append(@, [at |-> d.ms, args |-> args])]
        id == Len(d0.called)
    IN  [d0 EXCEPT !.pending = @ \cup {[id |-> id, due |-> d.ms + Wait, args |-> args]},
                   !.timeout = id]

\* executedFunction(...args): clearTimeout(timeout); timeout = setTimeout(later, wait).
\* Timer ids count the timers set; `later` keeps the arguments of this call.
executedFunction(d, args) ==
    LET d0 == [d EXCEPT !.called = Append(@, [at |-> d.ms, args |-> args])]
        d1 == clearTimeout(d0, d0.timeout)
        id == Len(d0.called)
    IN  [d1 EXCEPT !.pending = @ \cup {[id |-> id, due |-> d.ms + Wait, args |-> args]},
                   !.timeout = id]

\* later: clearTimeout(timeout); func(...args).  An invocation is recorded
\* with its time, its arguments and the number of calls made so far.
later(d, tm) ==
    LET d0 == [d EXCEPT !.pending = @ \ {tm}]
        d1 == clearTimeout(d0, d0.timeout)
    IN  [d1 EXCEPT !.invoked = Append(@, [at |-> d.ms, args |-> tm.args,
                                          call |-> Len(d.called)])]

\* const f = debounce(func, wait): no call made, `timeout` undefined
DebounceInit ==
    /\ ms = 0
    /\ called = <<>>
    /\ timeout = 0
    /\ pending = {}
    /\ invoked = <<>>

Init ==
    /\ page \in {"todo", "blog"}
    /\ status = "loading"
    /\ DebounceInit
    /\ now = StartClock
    /\ last = Env("open")
    /\ \E st \in IF page = "todo" THEN InitialStorages(TODOS_KEY, SeedTodo)
                 ELSE InitialStorages(POSTS_KEY, SeedPost) :
          /\ storage = st
          /\ feed = <<>>
          /\ timers = {}
          /\ fault = FALSE
          /\ ret = <<>>
          /\ wfail = FALSE
          /\ asked = "none"
          /\ failures = 0
          /\ emptyShown = FALSE
          /\ searchInput = <<>>
          /\ todos = <<>>
          /\ currentFilter = "all"
          /\ todoListDom = <<>>
          /\ todoStats = [total |-> 0, completed |-> 0]
          /\ posts = <<>>
          /\ currentView = "list"
          /\ currentPostId = <<>>
          /\ form = BlankForm
          /\ postsListDom = <<>>
          /\ blogStats = [totalPosts |-> 0, totalWords |-> 0]
          /\ shownView = "listView"
          /\ postViewDom = <<>>

\* a session of the todo page, a session of the blog page
InitTodoPage == Init /\ page = "todo"
InitBlogPage == Init /\ page = "blog"

----------------------------------------------------------------------------
(* Steps common to both pages *)

\* DOMContentLoaded: the page constructs its manager
DOMContentLoaded ==
    /\ status = "loading"
    /\ LET s == IF page = "todo" THEN newTodoManager(Enter(Cur))
                ELSE newBlogManager(Enter(Cur))
       IN  /\ Becomes(s)
           /\ status' = IF s.fault THEN "crashed" ELSE "ready"
    /\ last' = Env("construct")
    /\ UNCHANGED <<page, now>>

\* the user reloads the page: the document and its timers are discarded
Reload ==
    /\ status \in {"ready", "crashed"}
    /\ Becomes(Unloaded(storage))
    /\ status' = "loading"
    /\ last' = Env("reload")
    /\ UNCHANGED <<page, now>>

Tick ==
    /\ now < StartClock + MaxTicks
    /\ now' = now + 1
    /\ last' = Env("tick")
    /\ UNCHANGED <<page, status, storage, feed, timers, fault, ret, wfail, asked,
                   failures, emptyShown,
                   searchInput, todos, currentFilter, todoListDom, todoStats,
                   posts, currentView, currentPostId, form, postsListDom,
                   blogStats, shownView, postViewDom, dvars>>

ToastTimeout ==
    /\ \E tm \in timers : Becomes(toastTimeout(Enter(Cur), tm))
    /\ last' = Env("timeout")
    /\ UNCHANGED <<page, status, now>>

\* the timer of toast n fires
ToastIdRange == 0..(MaxPending + 1)
TimeoutOf(n) ==
    /\ \E tm \in timers : tm.toast = n /\ Becomes(toastTimeout(Enter(Cur), tm))
    /\ last' = Env("timeout")
    /\ UNCHANGED <<page, status, now>>

DismissToast ==
    /\ \E i \in 1..Len(feed) : Becomes(dismissToast(Enter(Cur), feed[i].id))
    /\ last' = Env("dismiss")
    /\ UNCHANGED <<page, status, now>>

Room == Cardinality(timers) < MaxPending

\* outcomes of this command's localStorage.setItem
WriteOutcomes == IF failures < MaxWriteFailures THEN BOOLEAN ELSE {TRUE}

----------------------------------------------------------------------------
(* Commands of the todo page *)

TodoReady == page = "todo" /\ status = "ready"

AddTodo ==
    /\ TodoReady /\ Room /\ Len(todos) < MaxTodos
    /\ \E in \in TodoInputs, writeOk \in WriteOutcomes :
          /\ Becomes(addTodo(Enter(Cur), in.text, in.priority, in.dueDate, now, writeOk))
          /\ last' = Cmd("addTodo", NumberToString(now), FALSE, in.text, <<>>, <<>>,
                         Opt(in))
    /\ UNCHANGED <<page, status, now>>

TodoFormSubmit ==
    /\ TodoReady /\ Room /\ Len(todos) < MaxTodos
    /\ \E in \in TodoFormInputs, writeOk \in WriteOutcomes :
          /\ Becomes(todoFormSubmit(Enter(Cur), in.text, in.priority, in.dueDate,
                                    now, writeOk))
          /\ last' = Cmd("todoFormSubmit", NumberToString(now), FALSE, in.text, <<>>,
                         <<>>, Opt(in))
    /\ UNCHANGED <<page, status, now>>

ToggleTodo ==
    /\ TodoReady /\ Room
    /\ \E id \in IdArgs(todos), writeOk \in WriteOutcomes :
          /\ Becomes(toggleTodo(Enter(Cur), id, writeOk))
          /\ last' = Cmd("toggleTodo", id, FindIndex(todos, id) > 0, <<>>, <<>>,
                         <<>>, NoOpt)
    /\ UNCHANGED <<page, status, now>>

DeleteTodo ==
    /\ TodoReady /\ Room
    /\ \E id \in IdArgs(todos), writeOk \in WriteOutcomes :
          /\ Becomes(deleteTodo(Enter(Cur), id, writeOk))
          /\ last' = Cmd("deleteTodo", id, FindIndex(todos, id) > 0, <<>>, <<>>,
                         <<>>, NoOpt)
    /\ UNCHANGED <<page, status, now>>

EditTodo ==
    /\ TodoReady /\ Room
    /\ \E id \in IdArgs(todos), newText \in EditTexts, writeOk \in WriteOutcomes :
          /\ Becomes(editTodo(Enter(Cur), id, newText, writeOk))
          /\ last' = Cmd("editTodo", id, FindIndex(todos, id) > 0, newText, <<>>,
                         <<>>, NoOpt)
    /\ UNCHANGED <<page, status, now>>

SetFilter ==
    /\ TodoReady
    /\ \E filter \in Filters :
          /\ Becomes(setFilter(Enter(Cur), filter))
          /\ last' = Cmd("setFilter", <<>>, FALSE, <<>>, <<>>, <<>>,
                         [priority |-> filter, dueDate |-> ""])
    /\ UNCHANGED <<page, status, now>>

\* the input listener of #searchInput: the box holds the query it passes on
SearchTodos ==
    /\ TodoReady
    /\ \E query \in Queries :
          /\ Becomes(searchTodos([Enter(Cur) EXCEPT !.searchInput = query], query))
          /\ last' = Cmd("searchTodos", <<>>, FALSE, query, <<>>, <<>>, NoOpt)
    /\ UNCHANGED <<page, status, now>>

\* a declined prompt ends the command before any notification
ClearCompleted ==
    /\ TodoReady
    /\ \E yes \in BOOLEAN, writeOk \in WriteOutcomes :
          /\ Room \/ (~yes /\ \E i \in 1..Len(todos) : todos[i].completed)
          /\ Becomes(clearCompleted(Enter(Cur), yes, writeOk))
          /\ last' = Cmd("clearCompleted", <<>>,
                         \E i \in 1..Len(todos) : todos[i].completed,
                         <<>>, <<>>, <<>>, NoOpt)
    /\ UNCHANGED <<page, status, now>>

TodoNext ==
    \/ AddTodo
    \/ TodoFormSubmit
    \/ ToggleTodo
    \/ DeleteTodo
    \/ EditTodo
    \/ SetFilter
    \/ SearchTodos
    \/ ClearCompleted

----------------------------------------------------------------------------
(* Commands of the blog page *)

BlogReady == page = "blog" /\ status = "ready"
View(v) == [priority |-> v, dueDate |-> ""]

\* the user edits the fields of the visible form
TypeForm ==
    /\ BlogReady /\ shownView = "formView"
    /\ \E fill \in FormFills :
          /\ Becomes([Enter(Cur) EXCEPT !.form.title = fill.title,
                                        !.form.content = fill.content,
                                        !.form.tags = fill.tags])
          /\ last' = Cmd("typeForm", <<>>, FALSE, fill.title, fill.content, <<>>,
                         NoOpt)
    /\ UNCHANGED <<page, status, now>>

\* the user writes a long post into the visible form
TypeLongForm ==
    /\ BlogReady /\ shownView = "formView"
    /\ \E fill \in LongFills :
          /\ Becomes([Enter(Cur) EXCEPT !.form.title = fill.title,
                                        !.form.content = fill.content,
                                        !.form.tags = fill.tags])
          /\ last' = Cmd("typeForm", <<>>, FALSE, fill.title, fill.content, <<>>,
                         NoOpt)
    /\ UNCHANGED <<page, status, now>>

\* the submit listener of #blogForm
HandleFormSubmission ==
    /\ BlogReady /\ Room /\ shownView = "formView"
    /\ currentView = "edit" \/ Len(posts) < MaxPosts
    /\ \E writeOk \in WriteOutcomes :
          /\ Becomes(handleFormSubmission(Enter(Cur), now, writeOk))
          /\ last' = Cmd("handleFormSubmission",
                         IF currentView = "edit" /\ Truthy(currentPostId)
                         THEN currentPostId ELSE NumberToString(now),
                         FindIndex(posts, currentPostId) > 0,
                         form.title, form.content, parseTags(Trim(form.tags)),
                         View(currentView))
    /\ UNCHANGED <<page, status, now>>

CreatePost ==
    /\ BlogReady /\ Room /\ Len(posts) < MaxPosts
    /\ \E a \in PostArgs, writeOk \in WriteOutcomes :
          /\ Becomes(createPost(Enter(Cur), a.title, a.content, a.tags, a.excerpt,
                                now, writeOk))
          /\ last' = Cmd("createPost", NumberToString(now), FALSE, a.title,
                         a.content, a.tags, View(currentView))
    /\ UNCHANGED <<page, status, now>>

UpdatePost ==
    /\ BlogReady /\ Room
    /\ \E id \in IdArgs(posts), a \in PostArgs, writeOk \in WriteOutcomes :
          /\ Becomes(updatePost(Enter(Cur), id, a.title, a.content, a.tags,
                                a.excerpt, writeOk))
          /\ last' = Cmd("updatePost", id, FindIndex(posts, id) > 0, a.title,
                         a.content, a.tags, View(currentView))
    /\ UNCHANGED <<page, status, now>>

DeletePost ==
    /\ BlogReady
    /\ \E id \in IdArgs(posts), yes \in BOOLEAN, writeOk \in WriteOutcomes :
          /\ Room \/ ~yes
          /\ Becomes(deletePost(Enter(Cur), id, yes, writeOk))
          /\ last' = Cmd("deletePost", id, FindIndex(posts, id) > 0, <<>>, <<>>,
                         <<>>, View(currentView))
    /\ UNCHANGED <<page, status, now>>

\* the commands that show a form record in `last` the title and content the
\* form held when the command started

\* #backToListBtn, #cancel-btn and the Back button of the post view
ShowPostsList ==
    /\ BlogReady
    /\ Becomes(showPostsList(Enter(Cur)))
    /\ last' = Cmd("showPostsList", <<>>, FALSE, <<>>, <<>>, <<>>, View(currentView))
    /\ UNCHANGED <<page, status, now>>

ShowCreateForm ==
    /\ BlogReady
    /\ Becomes(showCreateForm(Enter(Cur)))
    /\ last' = Cmd("showCreateForm", <<>>, FALSE, form.title, form.content, <<>>,
                   View(currentView))
    /\ UNCHANGED <<page, status, now>>

ShowEditForm ==
    /\ BlogReady
    /\ \E id \in IdArgs(posts) :
          /\ Becomes(showEditForm(Enter(Cur), id))
          /\ last' = Cmd("showEditForm", id, FindIndex(posts, id) > 0, form.title,
                         form.content, <<>>, View(currentView))
    /\ UNCHANGED <<page, status, now>>

ShowPostView ==
    /\ BlogReady
    /\ \E id \in IdArgs(posts) :
          /\ Becomes(showPostView(Enter(Cur), id))
          /\ last' = Cmd("showPostView", id, FindIndex(posts, id) > 0, <<>>, <<>>,
                         <<>>, View(currentView))
    /\ UNCHANGED <<page, status, now>>

\* the input listener of #searchInput passes the trimmed value of the box
SearchPosts ==
    /\ BlogReady
    /\ \E value \in Queries \cup {<<" ", "B">>} :
          /\ Becomes(renderPostsList([Enter(Cur) EXCEPT !.searchInput = value],
                                     Trim(value)))
          /\ last' = Cmd("searchPosts", <<>>, FALSE, value, Trim(value), <<>>, NoOpt)
    /\ UNCHANGED <<page, status, now>>

\* renderPostsList(searchQuery) called as the interface exposes it
RenderPostsList ==
    /\ BlogReady
    /\ \E query \in SearchQueries :
          /\ Becomes(renderPostsList(Enter(Cur), query))
          /\ last' = Cmd("renderPostsList", <<>>, FALSE, query, query, <<>>, NoOpt)
    /\ UNCHANGED <<page, status, now>>

BlogNext ==
    \/ TypeForm
    \/ HandleFormSubmission
    \/ CreatePost
    \/ UpdatePost
    \/ DeletePost
    \/ ShowPostsList
    \/ ShowCreateForm
    \/ ShowEditForm
    \/ ShowPostView
    \/ SearchPosts

----------------------------------------------------------------------------

\* Commands on the two stores, called as the interface exposes them, with the
\* view commands that decide what a blog command finds
Next ==
    \/ DOMContentLoaded
    \/ Reload
    \/ Tick
    \/ ToastTimeout
    \/ AddTodo
    \/ TodoFormSubmit
    \/ ToggleTodo
    \/ DeleteTodo
    \/ EditTodo
    \/ ClearCompleted
    \/ CreatePost
    \/ UpdatePost
    \/ DeletePost
    \/ ShowPostsList
    \/ ShowCreateForm
    \/ ShowEditForm

Spec == Init /\ [][Next]_vars

\* The todo page with its filter, search box and toast close buttons
NextTodoPage ==
    \/ DOMContentLoaded
    \/ Reload
    \/ Tick
    \/ ToastTimeout
    \/ DismissToast
    \/ TodoNext

SpecTodoPage == InitTodoPage /\ [][NextTodoPage]_vars

\* The blog page driven through its form and buttons
NextBlogPage ==
    \/ DOMContentLoaded
    \/ Reload
    \/ Tick
    \/ ToastTimeout
    \/ DismissToast
    \/ BlogNext

SpecBlogPage == InitBlogPage /\ [][NextBlogPage]_vars

\* The todo list under its filter buttons
NextTodoFilter ==
    \/ DOMContentLoaded
    \/ ToastTimeout
    \/ AddTodo
    \/ ToggleTodo
    \/ SetFilter

SpecTodoFilter == InitTodoPage /\ [][NextTodoFilter]_vars

\* The posts list under its search box
NextBlogSearch ==
    \/ DOMContentLoaded
    \/ ToastTimeout
    \/ CreatePost
    \/ SearchPosts
    \/ RenderPostsList

SpecBlogSearch == InitBlogPage /\ [][NextBlogSearch]_vars

\* The blog page driven through its views and its form
NextBlogForm ==
    \/ DOMContentLoaded
    \/ ToastTimeout
    \/ TypeForm
    \/ HandleFormSubmission
    \/ DeletePost
    \/ ShowPostsList
    \/ ShowCreateForm
    \/ ShowEditForm
    \/ ShowPostView

SpecBlogForm == InitBlogPage /\ [][NextBlogForm]_vars

\* Posts written and rewritten through the form, with contents around the
\* excerpt limit
NextExcerpt ==
    \/ DOMContentLoaded
    \/ ToastTimeout
    \/ ShowCreateForm
    \/ ShowEditForm
    \/ TypeLongForm
    \/ HandleFormSubmission

SpecExcerpt == InitBlogPage /\ [][NextExcerpt]_vars

\* The commands of both pages that take an identifier, with the commands
\* that fill the collections and set the filter and the view
NextLookup ==
    \/ DOMContentLoaded
    \/ ToastTimeout
    \/ AddTodo
    \/ ToggleTodo
    \/ DeleteTodo
    \/ EditTodo
    \/ SetFilter
    \/ CreatePost
    \/ UpdatePost
    \/ DeletePost
    \/ ShowCreateForm
    \/ ShowEditForm
    \/ ShowPostView

SpecLookup == Init /\ [][NextLookup]_vars

\* What the two pages display: the lists under filter and search box, and
\* the commands that re-render them
NextDisplay ==
    \/ DOMContentLoaded
    \/ ToastTimeout
    \/ AddTodo
    \/ ToggleTodo
    \/ SetFilter
    \/ SearchTodos
    \/ CreatePost
    \/ SearchPosts

SpecDisplay == Init /\ [][NextDisplay]_vars

\* The notification feed of both pages: commands that notify, the timers and
\* the close buttons.  The event loop runs every pending timer callback.
NextNotifier ==
    \/ DOMContentLoaded
    \/ ToastTimeout
    \/ DismissToast
    \/ AddTodo
    \/ DeleteTodo
    \/ CreatePost
    \/ DeletePost

TimersFire == \A n \in ToastIdRange : WF_vars(TimeoutOf(n))

SpecNotifier == Init /\ [][NextNotifier]_vars /\ TimersFire

\* A function returned by debounce, its timers and the clock.  setTimeout
\* runs a callback once its delay has passed, not necessarily at once: other
\* work of the page may come first.
MgrVars ==
    <<page, status, now, storage, feed, timers, fault, ret, wfail, asked,
      failures, last, emptyShown, searchInput, todos, currentFilter,
      todoListDom, todoStats, posts, currentView, currentPostId, form,
      postsListDom, blogStats, shownView, postViewDom>>

\* f(args)
DebouncedCall ==
    /\ Len(called) < MaxCalls /\ ms <= MaxClock
    /\ \E args \in CallArgs : DBecomes(executedFunction(DCur, args))
    /\ UNCHANGED <<ms, MgrVars>>

\* the event loop runs the callback of a timer whose delay has passed
Later ==
    /\ \E tm \in pending : tm.due <= ms /\ DBecomes(later(DCur, tm))
    /\ UNCHANGED <<ms, MgrVars>>

\* a millisecond passes
Elapse ==
    /\ ms < MaxClock \/ \E tm \in pending : ms < tm.due
    /\ ms' = ms + 1
    /\ UNCHANGED <<called, timeout, pending, invoked, MgrVars>>

NextDebounce ==
    \/ DebouncedCall
    \/ Later
    \/ Elapse

\* time passes and the event loop runs every callback that is due
DebounceFair == WF_vars(Elapse) /\ WF_vars(Later)

SpecDebounce == Init /\ [][NextDebounce]_vars /\ DebounceFair

----------------------------------------------------------------------------
(* Vocabulary of the properties *)

\* the collection and the storage key of the manager this page runs
Coll == IF page = "todo" THEN todos ELSE posts
Key == IF page = "todo" THEN TODOS_KEY ELSE POSTS_KEY

\* the key holds the serialization of the whole in-memory collection
Persisted == HasItem(storage, Key) /\ storage[Key] = JSONstringify(Coll)

CreateOps == {"addTodo", "createPost"}
UpdateOps == {"editTodo", "updatePost"}
DeleteOps == {"deleteTodo", "deletePost"}
StoreOps ==
    CreateOps \cup UpdateOps \cup DeleteOps
        \cup {"todoFormSubmit", "toggleTodo", "clearCompleted", "handleFormSubmission"}

UniqueIds(arr) == \A i, j \in 1..Len(arr) : i # j => arr[i].id # arr[j].id

\* a is b with some elements left out, the others in the order of b
RECURSIVE IsSubseq(_, _)
IsSubseq(a, b) ==
    IF a = <<>> THEN TRUE
    ELSE IF b = <<>> THEN FALSE
    ELSE IF Head(a) = Head(b) THEN IsSubseq(Tail(a), Tail(b))
    ELSE IsSubseq(a, Tail(b))

Ids(arr) == [i \in 1..Len(arr) |-> arr[i].id]

HasToast(type) == \E i \in 1..Len(feed) : feed[i].type = type

----------------------------------------------------------------------------
(* C1 *)

\* the records that stay, and the ones behind a new head, keep their ids
IdsKept(old, new) ==
    IF Len(new) > Len(old) THEN Ids(Tail(new)) = Ids(old)
    ELSE IsSubseq(Ids(new), Ids(old))

\* C1: no two records of a collection have the same identifier, and a command
\* never changes the identifier of a record that stays in the collection.
\* The code takes the identifier from the clock reading alone.
C1_UniqueIdentifiers ==
    /\ [](UniqueIds(todos) /\ UniqueIds(posts))
    /\ [][last'.op \in StoreOps =>
            (IdsKept(todos, todos') /\ IdsKept(posts, posts'))]_vars

----------------------------------------------------------------------------
(* C2 *)

CollectionChanged == todos' # todos \/ posts' # posts

\* C2 as stated: after every store command that changes the collection, the
\* key holds the serialization of the whole in-memory collection.
C2_AlwaysPersisted ==
    [][(last'.op \in StoreOps /\ CollectionChanged) => Persisted']_vars

\* C2, amended: after every store command that changes the collection and
\* whose storage write did not fail, the key holds the serialization of the
\* whole in-memory collection.
C2_PersistedUnlessWriteFailed ==
    [][(last'.op \in StoreOps /\ CollectionChanged /\ ~wfail') => Persisted']_vars

\* a record was removed from a longer collection and the write went through
C2_Witness ==
    /\ last.op \in DeleteOps /\ last.hit /\ asked # "no"
    /\ ~wfail /\ Len(Coll) > 0 /\ Persisted

----------------------------------------------------------------------------
(* C3 *)

\* C3: when the storage write of a command fails, no fault escapes the
\* command, the mutation is kept, the command's remaining steps have run
\* (list re-rendered, stats updated, blog view switched to the list) and a
\* danger notification is in the feed.
C3_WriteFailureContained ==
    wfail =>
        /\ ~fault
        /\ HasToast("danger")
        /\ page = "todo" =>
              /\ todoListDom = render(Cur).todoListDom
              /\ last.op # "editTodo" => todoStats = updateStats(Cur).todoStats
        /\ page = "blog" =>
              /\ currentView = "list"
              /\ blogStats = updateBlogStats(Cur).blogStats

----------------------------------------------------------------------------
(* C4 *)

StoredAbsentOrMalformed ==
    \/ ~HasItem(storage, Key)
    \/ ~JSONwellFormed(storage[Key])

\* C4: constructing a manager over an absent or malformed stored value gives
\* the empty collection and throws nothing.
C4_LoadNeverThrows ==
    (last.op = "construct" /\ StoredAbsentOrMalformed) =>
        (Coll = <<>> /\ ~fault /\ status = "ready")

----------------------------------------------------------------------------
(* C5 *)

Blank(str) == ~Truthy(Trim(str))

\* C5: a create command whose required text is empty or whitespace-only
\* leaves the collection length and the persisted value unchanged.
C5_BlankCreateIsNoOp ==
    [][(/\ last'.op \in CreateOps \cup {"todoFormSubmit", "handleFormSubmission"}
        /\ last'.opt.priority # "edit"
        /\ Blank(last'.text) \/ (page = "blog" /\ Blank(last'.text2)))
       => (/\ Len(todos') = Len(todos)
           /\ Len(posts') = Len(posts)
           /\ storage' = storage)]_vars

----------------------------------------------------------------------------
(* C6 *)

ValidCreate ==
    \/ last.op = "addTodo" /\ ~Blank(last.text)
    \/ last.op = "createPost" /\ ~Blank(last.text) /\ ~Blank(last.text2)

\* the record a lookup of identifier id finds (Array.prototype.find)
Lookup(arr, id) == arr[FindIndex(arr, id)]

InputStored ==
    /\ FindIndex(Coll, last.id) > 0
    /\ LET r == Lookup(Coll, last.id)
       IN  /\ r.createdAt # <<>>
           /\ page = "todo" =>
                 /\ r.text = last.text
                 /\ r.priority = last.opt.priority
                 /\ r.dueDate = last.opt.dueDate
                 /\ r.completed = FALSE
           /\ page = "blog" =>
                 /\ r.title = last.text
                 /\ r.content = last.text2
                 /\ r.tags = last.tags

----------------------------------------------------------------------------
(* C7 *)

DigitVal(c) == CHOOSE d \in 0..9 : DigitChar(d) = c

\* order of two timestamps written by toISOString (equal length)
IsoLeq(a, b) ==
    \/ a = b
    \/ \E i \in 1..Len(a) :
          /\ \A j \in 1..(i - 1) : a[j] = b[j]
          /\ a[i] # b[i]
          /\ DigitVal(a[i]) < DigitVal(b[i])

MostRecentFirst(arr) ==
    \A i, j \in 1..Len(arr) : i < j => IsoLeq(arr[j].createdAt, arr[i].createdAt)

Keys(arr) == [i \in 1..Len(arr) |-> <<arr[i].id, arr[i].createdAt>>]

OrderKept(old, new) ==
    IF Len(new) > Len(old) THEN Tail(new) = old
    ELSE IsSubseq(Keys(new), Keys(old))

\* C7: a create puts the new record at index 0 in front of the earlier
\* records, no other command reorders the records that remain, and the
\* collection is always ordered most recently created first.
C7_MostRecentFirst ==
    /\ [](MostRecentFirst(todos) /\ MostRecentFirst(posts))
    /\ [][last'.op \in StoreOps =>
            (OrderKept(todos, todos') /\ OrderKept(posts, posts'))]_vars

\* two records created at different instants, after a command that kept both
C7_Witness ==
    /\ Len(Coll) = 2
    /\ Coll[1].createdAt # Coll[2].createdAt
    /\ last.op \in UpdateOps \cup {"toggleTodo"} /\ last.hit
    /\ last.id = Coll[2].id

----------------------------------------------------------------------------
(* C8 *)

\* C8: an update changes no record's id or createdAt, and an update of an id
\* that is not in the collection changes neither the collection nor the
\* persisted value.
C8_UpdateKeepsIdentity ==
    [][last'.op \in UpdateOps =>
          /\ Keys(todos') = Keys(todos)
          /\ Keys(posts') = Keys(posts)
          /\ ~last'.hit => (todos' = todos /\ posts' = posts /\ storage' = storage)]_vars

\* an update has just rewritten the title of an existing post
C8_Witness ==
    /\ last.op = "updatePost" /\ last.hit /\ ~fault
    /\ Lookup(posts, last.id).title = last.text
    /\ Lookup(posts, last.id).createdAt = ToISOString(1)
    /\ now > 2

----------------------------------------------------------------------------
(* C9 *)

Delete(s, id, writeOk) ==
    IF page = "todo" THEN deleteTodo(Enter(s), id, writeOk)
    ELSE deletePost(Enter(s), id, TRUE, writeOk)

CollOf(s) == IF page = "todo" THEN s.todos ELSE s.posts

\* C9: delete(id) removes exactly one record when id is present, leaves the
\* others as they were, and a second delete(id) changes neither the
\* collection nor the persisted value.
C9_DeleteIdempotent ==
    status = "ready" =>
        \A id \in IdArgs(Coll), ok1 \in BOOLEAN, ok2 \in BOOLEAN :
            LET once == Delete(Cur, id, ok1)
                twice == Delete(once, id, ok2)
                idx == FindIndex(Coll, id)
            IN  /\ idx > 0 => CollOf(once) = Splice1(Coll, idx)
                /\ CollOf(twice) = CollOf(once)
                /\ twice.storage = once.storage

----------------------------------------------------------------------------
(* C10 *)

\* outcomes of two consecutive writes that the failure budget still allows
WritePairs ==
    {p \in BOOLEAN \X BOOLEAN :
        (IF p[1] THEN 0 ELSE 1) + (IF p[2] THEN 0 ELSE 1)
            <= MaxWriteFailures - failures}

ToggleTwice(id, p) ==
    toggleTodo(Enter(toggleTodo(Enter(Cur), id, p[1])), id, p[2])

\* C10 as stated: toggle(id) twice leaves the collection and the persisted
\* value as they were.
C10_ToggleTwiceRestoresAll ==
    (page = "todo" /\ status = "ready") =>
        \A id \in IdArgs(todos), p \in WritePairs :
            /\ ToggleTwice(id, p).todos = todos
            /\ ToggleTwice(id, p).storage = storage

\* C10, amended: toggle(id) twice leaves every completed flag and the whole
\* collection as they were; the persisted value is as it was when id names no
\* record, or when it was the serialization of the collection and both writes
\* succeed.
C10_ToggleTwiceRestoresCollection ==
    (page = "todo" /\ status = "ready") =>
        \A id \in IdArgs(todos), p \in WritePairs :
            /\ ToggleTwice(id, p).todos = todos
            /\ (FindIndex(todos, id) = 0 \/ (Persisted /\ p[1] /\ p[2]))
                  => ToggleTwice(id, p).storage = storage

\* a toggle has just flipped a record, and toggling it again flips it back
C10_Witness ==
    /\ last.op = "toggleTodo" /\ last.hit /\ Persisted
    /\ toggleTodo(Enter(Cur), last.id, TRUE).todos # todos
    /\ ToggleTwice(last.id, <<TRUE, TRUE>>).todos = todos
    /\ ToggleTwice(last.id, <<TRUE, TRUE>>).storage = storage

----------------------------------------------------------------------------
(* C11 *)

\* the newest toast of the feed
LastToast == feed[Len(feed)]
LastToastNext == feed'[Len(feed')]

PendingCount(arr) == Cardinality({i \in 1..Len(arr) : ~arr[i].completed})

\* new is old without its completed records: what stays is unchanged and in
\* order, nothing completed stays, and every pending record stays
OnlyCompletedRemoved(old, new) ==
    /\ IsSubseq(new, old)
    /\ \A i \in 1..Len(new) : ~new[i].completed
    /\ Len(new) = PendingCount(old)

ReportsCleared(n) ==
    /\ Len(feed') > Len(feed)
    /\ LastToastNext.type = "success"
    /\ LastToastNext.message = Msg("%n completed todos cleared!", NumberToString(n))

ReportsNothingToClear ==
    /\ Len(feed') = Len(feed) + 1
    /\ LastToastNext.type = "info"
    /\ LastToastNext.message = Msg("No completed todos to clear!", <<>>)

NothingCompleted ==
    /\ todos' = todos
    /\ storage' = storage
    /\ ReportsNothingToClear

\* C11 as stated: clearCompleted removes all and only the completed records,
\* keeps every pending record unchanged and in order, and reports the number
\* cleared; with no completed record it leaves the collection and the
\* persisted value unchanged and reports "nothing to clear" as an info toast.
C11_ClearCompletedRemoves ==
    [][last'.op = "clearCompleted" =>
          IF last'.hit
          THEN /\ OnlyCompletedRemoved(todos, todos')
               /\ ReportsCleared(Len(todos) - PendingCount(todos))
          ELSE NothingCompleted]_vars

\* C11, amended: the same once the user has accepted the confirmation prompt
\* that clearCompleted shows when at least one record is completed.
C11_ClearCompletedRemovesOnceConfirmed ==
    [][last'.op = "clearCompleted" =>
          IF last'.hit
          THEN asked' = "yes" =>
                  /\ OnlyCompletedRemoved(todos, todos')
                  /\ ReportsCleared(Len(todos) - PendingCount(todos))
          ELSE NothingCompleted /\ asked' = "none"]_vars

\* one of two records was completed and has just been cleared
C11_Witness ==
    /\ last.op = "clearCompleted" /\ last.hit /\ asked = "yes"
    /\ Len(todos) = 1 /\ ~todos[1].completed
    /\ todoStats.total = 1
    /\ LastToast.message = Msg("%n completed todos cleared!", NumberToString(1))

----------------------------------------------------------------------------
(* C12 *)

\* what getFilteredTodos returns for the current collection under filter f
FilterProjection(f) == getFilteredTodos([Cur EXCEPT !.currentFilter = f])

AllCompleted(arr, flag) == \A i \in 1..Len(arr) : arr[i].completed = flag

\* C12: under 'pending' the projection holds exactly the records with
\* completed = false, under 'completed' exactly those with completed = true,
\* under 'all' every record, each time in the order of the collection; the
\* list shown after setFilter is that projection.
C12_FilterProjection ==
    TodoReady =>
        /\ \A f \in Filters : IsSubseq(FilterProjection(f), todos)
        /\ AllCompleted(FilterProjection("pending"), FALSE)
        /\ Len(FilterProjection("pending")) = PendingCount(todos)
        /\ AllCompleted(FilterProjection("completed"), TRUE)
        /\ Len(FilterProjection("completed")) = Len(todos) - PendingCount(todos)
        /\ FilterProjection("all") = todos
        /\ last.op = "setFilter" =>
              /\ currentFilter = last.opt.priority
              /\ Len(todoListDom) = Len(FilterProjection(currentFilter))
              /\ \A i \in 1..Len(todoListDom) :
                    /\ todoListDom[i].id = FilterProjection(currentFilter)[i].id
                    /\ todoListDom[i].text = FilterProjection(currentFilter)[i].text

\* a pending record in front of a completed one, shown under 'completed'
C12_Witness ==
    /\ last.op = "setFilter" /\ currentFilter = "completed"
    /\ Len(todos) = 2 /\ ~todos[1].completed /\ todos[2].completed
    /\ Len(todoListDom) = 1 /\ todoListDom[1].id = todos[2].id

----------------------------------------------------------------------------
(* C13 *)

CasePairs ==
    {<<"A", "a">>, <<"B", "b">>, <<"H", "h">>, <<"I", "i">>, <<"N", "n">>,
     <<"T", "t">>, <<"U", "u">>, <<"X", "x">>}

\* the same character, or the two cases of one letter
SameLetter(a, b) == a = b \/ <<a, b>> \in CasePairs \/ <<b, a>> \in CasePairs

\* needle occurs in hay when case is ignored
OccursIgnoringCase(needle, hay) ==
    \E i \in 0..(Len(hay) - Len(needle)) :
        \A k \in 1..Len(needle) : SameLetter(hay[i + k], needle[k])

QueryKeeps(post, query) ==
    \/ query = <<>>
    \/ OccursIgnoringCase(query, post.title)
    \/ OccursIgnoringCase(query, post.content)
    \/ \E i \in 1..Len(post.tags) : OccursIgnoringCase(query, post.tags[i])

\* the posts whose cards are in #posts-list: each card is the card of a post
CardOf(post) == [id |-> post.id, title |-> post.title, excerpt |-> post.excerpt]

\* C13: the posts list rendered for a query shows a post if and only if the
\* query is empty or occurs, case ignored, in the post's title, its content
\* or one of its tags; the posts shown are in collection order.
C13_SearchProjection ==
    [][last'.op \in {"renderPostsList", "searchPosts"} =>
          /\ posts' = posts
          /\ LET kept == SelectSeq(posts, LAMBDA post : QueryKeeps(post, last'.text2))
             IN  /\ postsListDom' = [i \in 1..Len(kept) |-> CardOf(kept[i])]
                 /\ emptyShown' = (kept = <<>>)]_vars

\* of two posts, the query keeps only the first, and only by its tag
C13_Witness ==
    /\ last.op = "renderPostsList" /\ last.text2 = <<"u">>
    /\ Len(posts) = 2 /\ posts[1].tags = << <<"U">> >>
    /\ Len(postsListDom) = 1 /\ postsListDom[1].id = posts[1].id
    /\ posts[2].id # posts[1].id

----------------------------------------------------------------------------
(* C14 *)

ViewStates == {"list", "create", "edit", "view"}

ListedTransitions ==
    {<<"list", "create">>, <<"create", "list">>, <<"edit", "list">>,
     <<"list", "edit">>, <<"list", "view">>, <<"view", "edit">>,
     <<"view", "list">>}

ViewIsKnown == currentView \in ViewStates
ListAfterConstruction == (last.op = "construct" /\ ~fault) => currentView = "list"

\* C14: currentView is always one of list, create, edit, view; it is list
\* once construction finishes; and every change of currentView is one of the
\* listed transitions.
C14_ViewStateMachine ==
    /\ [](ViewIsKnown /\ ListAfterConstruction)
    /\ [][currentView' # currentView =>
            <<currentView, currentView'>> \in ListedTransitions]_vars

----------------------------------------------------------------------------
(* C15 *)

FromForm == last'.opt.priority \in {"create", "edit"}

ValidSubmission ==
    /\ last'.op = "handleFormSubmission"
    /\ ~Blank(last'.text) /\ ~Blank(last'.text2)
    /\ FromForm

Cancel == last'.op = "showPostsList" /\ FromForm

\* C15: a submission with non-empty trimmed title and content made in create
\* or edit ends in list; a cancel from create or edit ends in list and leaves
\* the collection and the persisted value unchanged.
C15_FormLeavesToList ==
    [][/\ ValidSubmission => currentView' = "list"
       /\ Cancel => (currentView' = "list" /\ posts' = posts /\ storage' = storage)]_vars

----------------------------------------------------------------------------
(* C16 *)

EntersEdit ==
    \/ last'.op = "showEditForm" /\ last'.hit
    \/ currentView' = "edit" /\ currentView # "edit"

EntersCreate ==
    \/ last'.op = "showCreateForm"
    \/ currentView' = "create" /\ currentView # "create"

\* the form shows the stored values of post
FormShows(f, post) ==
    /\ f.title = post.title
    /\ f.content = post.content
    /\ f.tags = Join(post.tags)

FormEmpty(f) == f.title = <<>> /\ f.content = <<>> /\ f.tags = <<>> /\ f.editId = <<>>

\* C16: whenever the manager enters edit for a post the form's title,
\* content and tags fields hold that post's stored values, and whenever it
\* enters create all form fields are empty, whatever an earlier, cancelled
\* create or edit left typed in the form.
C16_FormOnEntry ==
    [][/\ EntersEdit =>
            /\ currentView' = "edit"
            /\ FindIndex(posts', currentPostId') > 0
            /\ currentPostId' = last'.id
            /\ FormShows(form', Lookup(posts', currentPostId'))
       /\ EntersCreate => (currentView' = "create" /\ FormEmpty(form'))]_vars

\* edit entered from the list while the form still held a title that was
\* typed and never stored
C16_Witness ==
    /\ last.op = "showEditForm" /\ last.hit /\ last.opt.priority = "list"
    /\ last.text = <<" ", "N">>
    /\ \A i \in 1..Len(posts) : posts[i].title # <<"N">>
    /\ currentView = "edit"
    /\ form.title = Lookup(posts, last.id).title

----------------------------------------------------------------------------
(* C17 *)

\* the last command was a valid form submission and its post is in the list
Submitted ==
    /\ last.op = "handleFormSubmission"
    /\ ~Blank(last.text) /\ ~Blank(last.text2)
    /\ FindIndex(posts, last.id) > 0
    /\ Lookup(posts, last.id).content = Trim(last.text2)

CappedPrefix(excerpt, content) ==
    /\ Len(excerpt) <= EXCERPT_MAX
    /\ Len(content) <= EXCERPT_MAX => excerpt = content

MarkedPrefix(excerpt, content) ==
    IF Len(content) <= EXCERPT_MAX THEN excerpt = content
    ELSE /\ Len(excerpt) = EXCERPT_MAX + 3
         /\ \A i \in 1..EXCERPT_MAX : excerpt[i] = content[i]
         /\ \A i \in (EXCERPT_MAX + 1)..(EXCERPT_MAX + 3) : excerpt[i] = "."

\* C17 as stated: the excerpt produced at create or update time has length
\* at most 150 and equals the content when the content has at most 150
\* characters.
C17_ExcerptAtMost150 ==
    Submitted =>
        CappedPrefix(Lookup(posts, last.id).excerpt, Lookup(posts, last.id).content)

\* C17, amended: the excerpt produced at create or update time equals the
\* content when the content has at most 150 characters, and otherwise is the
\* first 150 characters of the content followed by "...", 153 characters.
C17_ExcerptPrefixWithMarker ==
    Submitted =>
        MarkedPrefix(Lookup(posts, last.id).excerpt, Lookup(posts, last.id).content)

\* an existing post was rewritten with a content one character over the limit
C17_Witness ==
    /\ Submitted /\ last.opt.priority = "edit"
    /\ Len(Lookup(posts, last.id).content) = EXCERPT_MAX + 1
    /\ Len(Lookup(posts, last.id).excerpt) = EXCERPT_MAX + 3
    /\ \E i \in 1..Len(posts) : Len(posts[i].content) = EXCERPT_MAX
                                  /\ posts[i].excerpt = posts[i].content

----------------------------------------------------------------------------
(* C18 *)

\* C18: createPost and updatePost re-derive the excerpt from the content
\* they store: every post in the collection has
\* excerpt = generateExcerpt(content).
C18_ExcerptDerivedFromContent ==
    \A i \in 1..Len(posts) : posts[i].excerpt = generateExcerpt(posts[i].content)

----------------------------------------------------------------------------
(* C19 *)

LookupOps ==
    {"toggleTodo", "deleteTodo", "editTodo", "updatePost", "deletePost",
     "showEditForm", "showPostView"}

\* C19: a command that names an identifier not present in the collection
\* changes neither the collection, the persisted value, the filter, the view
\* nor the notification feed, and makes no storage write.
C19_LookupMissIsNoOp ==
    [][(last'.op \in LookupOps /\ ~last'.hit) =>
          /\ todos' = todos /\ posts' = posts
          /\ storage' = storage /\ ~wfail'
          /\ currentFilter' = currentFilter
          /\ currentView' = currentView /\ currentPostId' = currentPostId
          /\ shownView' = shownView
          /\ feed' = feed /\ timers' = timers
          /\ ~fault' /\ asked' = "none"]_vars

\* a command named a missing id while the collection was not empty and the
\* stored value was behind it
C19_Witness ==
    /\ last.op \in LookupOps /\ ~last.hit /\ last.id = MissingId
    /\ Len(Coll) > 0 /\ ~Persisted
    /\ page = "blog" => (last.op = "showPostView" /\ currentView = "edit")
    /\ page = "todo" => (last.op = "deleteTodo" /\ currentFilter = "pending")

----------------------------------------------------------------------------
(* C20 *)

\* C20: every todo in the collection has a text that is non-empty after
\* trimming, and every post has a title and a content that are non-empty
\* after trimming.
C20_RequiredTextNeverBlank ==
    /\ \A i \in 1..Len(todos) : ~Blank(todos[i].text)
    /\ \A i \in 1..Len(posts) : ~Blank(posts[i].title) /\ ~Blank(posts[i].content)

----------------------------------------------------------------------------
(* C21 *)

InFeed(n) == \E i \in 1..Len(feed) : feed[i].id = n

\* how many times the command that has just run called showNotification
NotifyCalls ==
    CASE last'.op = "addTodo" -> IF wfail' THEN 2 ELSE 1
      [] last'.op = "deleteTodo" /\ last'.hit -> IF wfail' THEN 2 ELSE 1
      [] last'.op = "createPost" -> IF fault' THEN 0 ELSE 1
      [] last'.op = "deletePost" /\ last'.hit /\ asked' = "yes" ->
            IF fault' THEN 0 ELSE 1
      [] OTHER -> 0

\* every call appended one toast behind the ones in the feed and started one
\* timer of NOTIFY_MS for it
OnePerCall ==
    last'.op \notin {"timeout", "dismiss"} =>
        /\ Len(feed') = Len(feed) + NotifyCalls
        /\ SubSeq(feed', 1, Len(feed)) = feed
        /\ timers \subseteq timers'
        /\ Cardinality(timers' \ timers) = NotifyCalls
        /\ \A i \in (Len(feed) + 1)..Len(feed') :
              /\ ~InFeed(feed'[i].id)
              /\ [toast |-> feed'[i].id, delay |-> NOTIFY_MS] \in timers' \ timers

\* a timer removes its own toast, if that is still in the feed, and no other
OwnToastOnly ==
    last'.op = "timeout" =>
        \E tm \in timers :
            /\ timers' = timers \ {tm}
            /\ IsSubseq(feed', feed)
            /\ \A i \in 1..Len(feed') : feed'[i].id # tm.toast
            /\ Len(feed') = Len(feed) - (IF InFeed(tm.toast) THEN 1 ELSE 0)

\* C21: each showNotification call appends exactly one message to the feed,
\* a message's timer removes that message and no other, and every message
\* in the feed is eventually removed.
C21_ToastsAppendAndExpire ==
    /\ [](UniqueIds(feed))
    /\ [][OnePerCall /\ OwnToastOnly]_vars
    /\ \A n \in ToastIdRange : InFeed(n) ~> ~InFeed(n)

\* two messages are in the feed at once, each with its own pending timer
C21_Witness ==
    /\ Len(feed) = 2
    /\ feed[1].type = "danger" /\ feed[2].type = "success"
    /\ feed[1].id # feed[2].id
    /\ \A i \in 1..2 : [toast |-> feed[i].id, delay |-> NOTIFY_MS] \in timers

----------------------------------------------------------------------------
(* C22 *)

\* the collection a new manager constructed now, over the storage as it is,
\* would hold; <<"fault">> when its constructor throws
Reopened ==
    IF page = "todo" THEN newTodoManager(Enter(Unloaded(storage))).todos
    ELSE LET s == newBlogManager(Enter(Unloaded(storage)))
         IN  IF s.fault THEN <<"fault">> ELSE s.posts

\* C22: while no write of the session has failed, a new manager constructed
\* over the same storage holds a collection equal to the in-memory one,
\* field for field and in the same order; after a reload the collection is
\* what the storage held.
C22_ReloadRoundTrip ==
    (status = "ready" /\ failures = 0) => Reopened = Coll

\* the page was reloaded after the session had added a record and changed one
C22_Witness ==
    /\ last.op = "construct" /\ status = "ready" /\ failures = 0
    /\ Len(Coll) = 2
    /\ Coll[1].id # Coll[2].id
    /\ page = "todo" => ~Coll[2].completed
    /\ page = "blog" => Coll[2].title # SeedPost.title

----------------------------------------------------------------------------
(* C23 *)

\* the .todo-item elements the user sees: those not hidden by display: none
VisibleTodos == SelectSeq(todoListDom, LAMBDA item : item.display # "none")

NothingDisplayed ==
    IF page = "todo" THEN VisibleTodos = <<>> ELSE postsListDom = <<>>

DisplayOps ==
    StoreOps \cup {"construct", "setFilter", "searchTodos", "searchPosts",
                   "renderPostsList"}

\* C23: after every command that changes what is displayed, the empty
\* indicator is shown if and only if no record is displayed.
C23_EmptyIndicator ==
    (status = "ready" /\ last.op \in DisplayOps /\ ~fault) =>
        (emptyShown <=> NothingDisplayed)

----------------------------------------------------------------------------
(* C24 *)

\* the todos the filter and the query in the search box keep, in order
TodoProjection ==
    SelectSeq(todos,
        LAMBDA todo :
            /\ currentFilter = "pending" => ~todo.completed
            /\ currentFilter = "completed" => todo.completed
            /\ OccursIgnoringCase(searchInput, todo.text))

\* the posts the query in the search box keeps, in order
PostProjection ==
    SelectSeq(posts, LAMBDA post : QueryKeeps(post, Trim(searchInput)))

DisplayedIds ==
    IF page = "todo" THEN Ids(VisibleTodos) ELSE Ids(postsListDom)

ProjectedIds ==
    IF page = "todo" THEN Ids(TodoProjection) ELSE Ids(PostProjection)

\* C24: after every command the displayed list is the projection of the
\* collection under the filter and the search query in effect; a mutation
\* does not make the display drop them.
C24_DisplayIsProjection ==
    (status = "ready" /\ ~fault) => DisplayedIds = ProjectedIds

----------------------------------------------------------------------------
(* C25 *)

\* a write of this session has failed and the stored value is behind the
\* in-memory collection
Behind == status = "ready" /\ failures > 0 /\ ~Persisted

\* C25: a failed write is not retried and does not block later commands:
\* nothing but a store command writes, and after a failed write the next
\* mutating command whose write succeeds completes and leaves the stored
\* value equal to the whole in-memory collection.
C25_NextWriteCatchesUp ==
    [][/\ (Behind /\ last'.op \in StoreOps /\ CollectionChanged /\ ~wfail')
            => (Persisted' /\ ~fault')
       /\ last'.op \notin StoreOps => storage' = storage]_vars

\* the stored value was behind a collection of two records, one of them
\* created in this session, and a later command has just written both
C25_Witness ==
    /\ failures = 1 /\ ~wfail /\ ~fault /\ Persisted
    /\ last.op \in {"toggleTodo", "editTodo", "updatePost"} /\ last.hit
    /\ Len(Coll) = 2 /\ Coll[1].id # SeedTodo.id
    /\ last.id = Coll[2].id

----------------------------------------------------------------------------
(* C26 *)

\* C26: whenever currentView = edit, currentPostId is the identifier of a
\* post that is in the collection.
C26_EditedPostExists ==
    (page = "blog" /\ currentView = "edit") => FindIndex(posts, currentPostId) > 0

----------------------------------------------------------------------------
(* C27 *)

ValidSubmit ==
    /\ last'.op = "handleFormSubmission"
    /\ ~Blank(last'.text) /\ ~Blank(last'.text2)

\* one new post in front of the posts there were, holding the form's values
OneAdded ==
    /\ Len(posts') = Len(posts) + 1
    /\ Tail(posts') = posts
    /\ posts'[1].title = Trim(last'.text)
    /\ posts'[1].content = Trim(last'.text2)
    /\ posts'[1].tags = last'.tags

\* no post added or removed, and no post changed but the one currentPostId
\* names, which keeps its id and takes the form's values
OnlyEditedChanged ==
    /\ Len(posts') = Len(posts)
    /\ \A i \in 1..Len(posts) :
          IF i = FindIndex(posts, currentPostId)
          THEN /\ posts'[i].id = posts[i].id
               /\ posts'[i].createdAt = posts[i].createdAt
               /\ posts'[i].title = Trim(last'.text)
               /\ posts'[i].content = Trim(last'.text2)
               /\ posts'[i].tags = last'.tags
          ELSE posts'[i] = posts[i]

\* C27: a valid submission made in create adds exactly one post and leaves
\* every existing post unchanged, whatever currentPostId holds; a valid
\* submission made in edit changes only the post named by the most recent
\* showEditForm.
C27_SubmitTargetsRightPost ==
    [][/\ (ValidSubmit /\ currentView = "create") => OneAdded
       /\ (ValidSubmit /\ currentView = "edit") => OnlyEditedChanged
       /\ currentPostId' # currentPostId =>
             (last'.op \in {"showEditForm", "construct"} /\ currentPostId' = last'.id)
       ]_vars

\* a post was created through the form while currentPostId still named the
\* post of an earlier edit, which is unchanged behind the new one
C27_Witness ==
    /\ last.op = "handleFormSubmission" /\ last.opt.priority = "create"
    /\ ~Blank(last.text) /\ ~Blank(last.text2) /\ ~fault
    /\ Len(posts) = 2
    /\ currentPostId = posts[2].id
    /\ posts[2] = SeedPost
    /\ posts[1].title = Trim(last.text)

----------------------------------------------------------------------------
(* C28 *)

Declined ==
    /\ last'.op \in {"clearCompleted", "deletePost"}
    /\ asked' = "no"

\* C28: a clearCompleted or deletePost whose prompt is declined leaves the
\* collection, the persisted value, currentView and the notification feed as
\* they were before the command.
C28_DeclineChangesNothing ==
    [][Declined =>
          /\ todos' = todos /\ posts' = posts
          /\ storage' = storage
          /\ currentView' = currentView
          /\ feed' = feed]_vars

\* the removal of a post shown in the edit form was declined, with a toast on
\* the page
C28_Witness ==
    /\ last.op = "deletePost" /\ asked = "no" /\ last.hit
    /\ currentView = "edit" /\ currentPostId = last.id
    /\ Len(posts) = 2 /\ Len(feed) > 0

----------------------------------------------------------------------------
(* C29 *)

LastCall == called[Len(called)]
Calls == called' # called
Invokes == invoked' # invoked
NewInvocation == invoked'[Len(invoked')]

\* func has run since the call numbered n, and no call came between
Answered(n) == \E i \in 1..Len(invoked) : invoked[i].call = n

\* if calls stop, func is eventually invoked
EventuallyInvoked ==
    \A n \in 1..MaxCalls :
        (Len(called) = n) ~> (Len(called) > n \/ Answered(n))

\* C29 as stated: func is not invoked during a burst of calls less than
\* `wait` apart; after the burst it is invoked exactly once, `wait` after the
\* last call and with the last call's arguments; if calls stop, func is
\* eventually invoked.
C29_DebounceBurst ==
    /\ [][/\ Invokes =>
              /\ Len(invoked') = Len(invoked) + 1
              /\ NewInvocation.at = LastCall.at + Wait
              /\ NewInvocation.args = LastCall.args
              /\ ~Answered(Len(called))
          /\ (Calls /\ called # <<>> /\ ms - LastCall.at >= Wait) =>
                Answered(Len(called))]_vars
    /\ EventuallyInvoked

\* C29 amended: func is never invoked less than `wait` after the most recent
\* call, so never during a burst; after a call it is invoked at most once, with
\* that call's arguments; if calls stop, func is eventually invoked.
C29_DebounceQuiet ==
    /\ [][Invokes =>
              /\ Len(invoked') = Len(invoked) + 1
              /\ NewInvocation.at >= LastCall.at + Wait
              /\ NewInvocation.args = LastCall.args
              /\ ~Answered(Len(called))]_vars
    /\ EventuallyInvoked

\* a burst of two calls less than `wait` apart with different arguments,
\* answered by one invocation with the arguments of the second
C29_Witness ==
    /\ Len(called) = 2
    /\ called[2].at - called[1].at < Wait /\ called[2].at > called[1].at
    /\ called[1].args # called[2].args
    /\ Len(invoked) = 1
    /\ invoked[1].args = called[2].args
    /\ invoked[1].at >= called[2].at + Wait
    /\ pending = {}

====
